---- MODULE Spec2Model ----
(***************************************************************************)
(* CubeSat centre-of-gravity calculator (src/satelite_gui.py).             *)
(*                                                                         *)
(* Units.  Every length (thickness, height, distance, target bound) is an  *)
(* integer number of HALF millimetres, so that thickness/2 is exact for    *)
(* the even thicknesses the model draws (whole millimetres).  The loop     *)
(* counters height1/height2 and the int(...) results are whole             *)
(* millimetres, as in the code; float(height1) is 2*height1 half-mm.       *)
(* A centre of gravity is the quotient of two floats; it is kept as the    *)
(* pair [num, den] with den >= 0, den = 0 standing for the IEEE results    *)
(* of a numpy division by zero (+inf, -inf, nan).                          *)
(***************************************************************************)
EXTENDS Integers, Sequences, FiniteSets, TLC

\* ------------------------------------------------------------------------
\* Bounds of the model
\* ------------------------------------------------------------------------
MaxThk == 2
MaxHeight == 6
MaxDist == 1
MaxMass == 2
MaxRuns == 2

\* ------------------------------------------------------------------------
\* Components, pairs, permutations
\* ------------------------------------------------------------------------
component_names == <<"PL", "EPS", "OBC", "RAD">>

Idx == 0..3

component_pairs == << <<0, 1>>, <<0, 2>>, <<0, 3>>, <<1, 2>>, <<1, 3>>, <<2, 3>> >>

PairSet == {component_pairs[k] : k \in 1..Len(component_pairs)}

\* variant: the movable indices shifted by one, PL taken for a movable element
movable_indices_Shifted == <<0, 1>>

movable_indices == <<1, 2>>

\* itertools.permutations([1, 2]) yields (1, 2) then (2, 1)
Perms == << <<movable_indices[1], movable_indices[2]>>, <<movable_indices[2], movable_indices[1]>> >>

\* None for an integer local that has no value yet: an integer that no loop
\* counter and no loop bound takes
None == 0 - 99999

\* None for an array (best_heights = None)
NoneArr == << >>

\* None for a float (calcula_cg's except branch)
NoneCG == [num |-> 0, den |-> -1]

\* ------------------------------------------------------------------------
\* Float arithmetic
\* ------------------------------------------------------------------------
\* x / 2.0 for an even number of half-millimetres
Half(x) == x \div 2

\* variant: round(x), half away from zero, instead of int(x)
Trunc_Round(x) == IF x >= 0 THEN (x + 1) \div 2 ELSE -((1 - x) \div 2)

\* int(x): truncation toward zero of x half-millimetres, in whole millimetres
Trunc(x) == IF x >= 0 THEN x \div 2 ELSE -((-x) \div 2)

\* float(h) for a loop counter h in whole millimetres
Float(h) == 2 * h

PosInf == [num |-> 1, den |-> 0]
NegInf == [num |-> -1, den |-> 0]
NaN == [num |-> 0, den |-> 0]

Num(x) == [num |-> x, den |-> 1]

IsNaN(a) == a.den = 0 /\ a.num = 0

\* numpy float64 division: no exception, x/0 is +inf, -inf or nan
FDiv(n, d) ==
    IF d = 0 THEN (IF n > 0 THEN PosInf ELSE IF n < 0 THEN NegInf ELSE NaN)
    ELSE IF d < 0 THEN [num |-> -n, den |-> -d]
    ELSE [num |-> n, den |-> d]

\* a < b on floats (false when either is nan)
Lt(a, b) ==
    /\ ~IsNaN(a)
    /\ ~IsNaN(b)
    /\ IF a.den = 0 /\ b.den = 0 THEN a.num < b.num
       ELSE a.num * b.den < b.num * a.den

\* a <= b on floats (false when either is nan)
Leq(a, b) ==
    /\ ~IsNaN(a)
    /\ ~IsNaN(b)
    /\ IF a.den = 0 /\ b.den = 0 THEN a.num <= b.num
       ELSE a.num * b.den <= b.num * a.den

\* ------------------------------------------------------------------------
\* Input scenarios
\* ------------------------------------------------------------------------
\* 9999.0 mm, the default maximum distance
Big == 19998

Const4(v) == [i \in Idx |-> v]

ConstPairs(v) == [p \in PairSet |-> v]

\* the values of SateliteApp.__init__ (millimetres doubled)
Default ==
    [ masses |-> [i \in Idx |-> IF i = 1 THEN 300 ELSE 100],
      thicknesses |-> [i \in Idx |-> IF i < 2 THEN 40 ELSE 30],
      solar_panel_mass |-> 57, solar_panel_height |-> 210,
      antenna_mass |-> 90, antenna_height |-> 210,
      chassis_mass |-> 120, chassis_height |-> 96,
      total_height |-> 196,
      target_range |-> <<80, 120>>,
      min_dist |-> ConstPairs(0),
      max_dist |-> ConstPairs(Big) ]

\* thicknesses: whole millimetres 0..MaxThk
ThkSet == {2 * k : k \in 0..MaxThk}

\* total heights: every half millimetre up to MaxHeight mm
HeightSet == 0..(2 * MaxHeight)

\* distances: every half millimetre between -MaxDist and MaxDist mm
DistSet == (-2 * MaxDist)..(2 * MaxDist)

\* a minimum distance below every gap the small stacks can have
Loose == -2 * (MaxHeight + MaxThk)

MassSet == (-1)..MaxMass

\* a small stack: 1 mm thick unit masses, no external masses, the target
\* range as wide as the stack
Small ==
    [ masses |-> Const4(1),
      thicknesses |-> Const4(2),
      solar_panel_mass |-> 0, solar_panel_height |-> 2 * MaxHeight + 2,
      antenna_mass |-> 0, antenna_height |-> 2 * MaxHeight + 2,
      chassis_mass |-> 0, chassis_height |-> MaxHeight,
      total_height |-> 2 * MaxHeight,
      target_range |-> <<0, 2 * MaxHeight>>,
      min_dist |-> ConstPairs(0),
      max_dist |-> ConstPairs(Big) ]

\* the same stack with overlaps allowed
SmallLoose == [Small EXCEPT !.min_dist = ConstPairs(Loose)]

\* thicknesses and total height vary
GeoFamily ==
    { [b EXCEPT !.thicknesses = t, !.total_height = h] :
        b \in {Small, SmallLoose}, t \in [Idx -> ThkSet], h \in HeightSet }

\* the bounds of one pair vary (min > max included)
DistFamily ==
    { [b EXCEPT !.min_dist[pr] = lo, !.max_dist[pr] = hi] :
        b \in {Small, SmallLoose}, pr \in PairSet, lo \in DistSet, hi \in DistSet \cup {Big} }

\* masses vary (zero and negative included)
MassFamily ==
    { [Small EXCEPT !.masses = [i \in Idx |-> IF i \in {1, 2} THEN m[i] ELSE f[i]],
                    !.solar_panel_mass = e[1], !.antenna_mass = e[2], !.chassis_mass = e[3]] :
        m \in [{1, 2} -> MassSet], f \in [{0, 3} -> {0, 1}], e \in [1..3 -> {0, 1}] }

\* the target range varies (zero width and min > max included)
TargetFamily ==
    { [Small EXCEPT !.target_range = <<lo, hi>>, !.masses[1] = m] :
        lo \in HeightSet, hi \in HeightSet, m \in 1..MaxMass }

\* flat movable elements between fixed elements whose thicknesses can exceed
\* the total height (RAD's centre below PL's), the PL-RAD minimum varying
InvertedFamily ==
    { [SmallLoose EXCEPT !.thicknesses = [i \in Idx |-> IF i = 0 THEN t0 ELSE IF i = 3 THEN t3 ELSE 0],
                         !.total_height = h,
                         !.min_dist[<<0, 3>>] = lo] :
        t0 \in ThkSet, t3 \in ThkSet, h \in 0..(2 * MaxDist), lo \in DistSet }

\* the forms a user switches between within one session
SessionSet ==
    { [Small EXCEPT !.target_range = <<lo, 2 * MaxHeight>>, !.masses[1] = m] :
        lo \in {0, 2 * MaxHeight}, m \in {0, 1} }
    \cup {SmallLoose, [Small EXCEPT !.masses = Const4(0)]}

ScenarioSet ==
    {Default} \cup GeoFamily \cup DistFamily \cup MassFamily \cup TargetFamily \cup InvertedFamily

\* ------------------------------------------------------------------------
\* State
\* ------------------------------------------------------------------------
VARIABLES
    params,         \* the tk variables of the form (var_mass_*, var_thk_*, ...)
    pc,             \* position in _on_calcular / _executar_calculo
    result,         \* what _executar_calculo returned into the result text
    heights,        \* local heights array
    best_cg,        \* local best_cg
    best_heights,   \* local best_heights
    permIdx,        \* position of the permutations iterator (1, 2; 3 = exhausted)
    height1,        \* next value of range(min_altura_1, max_altura_1 + 1)
    height2,        \* next value of range(min_altura_2, max_altura_2 + 1)
    min_altura_1, max_altura_1, min_altura_2, max_altura_2,
    n_visited,      \* history: candidates visited so far in each permutation
    memo,           \* history: form and result of the first finished calculation
    current_lang,   \* self.current_lang
    notice,         \* the text a save or load appended to the result box last
    file,           \* the text of the configuration file that was saved last
    saved,          \* history: form, language and outcome on display at that save
    restored,       \* history: "no", or how the load of the saved file left the form:
                    \* "kept" as it was, or "replaced"
    fresh           \* history: the result box shows the outcome of the form as it is

locals == <<heights, best_cg, best_heights, permIdx, height1, height2,
            min_altura_1, max_altura_1, min_altura_2, max_altura_2>>

gui == <<current_lang, notice>>

trip == <<file, saved, restored>>

vars == <<params, pc, result, locals, n_visited, memo, gui, trip, fresh>>

\* nothing was saved yet
NoFile == << >>

NoSaved == [set |-> FALSE]

\* the result box holds no text of a save or load
NoNotice == "none"

NoMemo == [set |-> FALSE]

\* ------------------------------------------------------------------------
\* Pure functions of the program
\* ------------------------------------------------------------------------
\* variant: only matrix[iA][iB] is filled, the mirrored entry stays 0
BuildDistanceMatrix_OneWay(dist_vars) ==
    [i \in Idx |-> [j \in Idx |->
        IF <<i, j>> \in PairSet THEN dist_vars[<<i, j>>] ELSE 0]]

\* _build_distance_matrix: symmetric 4x4 matrix, zero diagonal
BuildDistanceMatrix(dist_vars) ==
    [i \in Idx |-> [j \in Idx |->
        IF <<i, j>> \in PairSet THEN dist_vars[<<i, j>>]
        ELSE IF <<j, i>> \in PairSet THEN dist_vars[<<j, i>>]
        ELSE 0]]

Edges(hs, thk) == [i \in Idx |-> <<hs[i] - Half(thk[i]), hs[i] + Half(thk[i])>>]

Lower(hs, i, j) == IF hs[i] <= hs[j] THEN i ELSE j

Higher(hs, i, j) == IF hs[i] <= hs[j] THEN j ELSE i

DistEntreBordas(hs, thk, i, j) ==
    Edges(hs, thk)[Higher(hs, i, j)][1] - Edges(hs, thk)[Lower(hs, i, j)][2]

\* variant: the pair of the two fixed elements is skipped
verifica_distancias_movable(hs, thk, minM, maxM) ==
    \A i \in Idx : \A j \in Idx :
        (i < j /\ <<i, j>> # <<0, 3>>) =>
            /\ ~(DistEntreBordas(hs, thk, i, j) < minM[Lower(hs, i, j)][Higher(hs, i, j)])
            /\ ~(DistEntreBordas(hs, thk, i, j) > maxM[Lower(hs, i, j)][Higher(hs, i, j)])

\* variant: only the maximum distances are tested
verifica_distancias_max(hs, thk, minM, maxM) ==
    \A i \in Idx : \A j \in Idx :
        i < j => ~(DistEntreBordas(hs, thk, i, j) > maxM[Lower(hs, i, j)][Higher(hs, i, j)])

\* variant: only the minimum distances are tested
verifica_distancias_min(hs, thk, minM, maxM) ==
    \A i \in Idx : \A j \in Idx :
        i < j => ~(DistEntreBordas(hs, thk, i, j) < minM[Lower(hs, i, j)][Higher(hs, i, j)])

verifica_distancias_minmax(hs, thk, minM, maxM) ==
    \A i \in Idx : \A j \in Idx :
        i < j =>
            /\ ~(DistEntreBordas(hs, thk, i, j) < minM[Lower(hs, i, j)][Higher(hs, i, j)])
            /\ ~(DistEntreBordas(hs, thk, i, j) > maxM[Lower(hs, i, j)][Higher(hs, i, j)])

Sum4(f) == f[0] + f[1] + f[2] + f[3]

\* variant: the external masses are left out of the total
TotalMass_NoExternal(p) == Sum4(p.masses)

TotalMass(p) ==
    Sum4(p.masses) + p.solar_panel_mass + p.antenna_mass + p.chassis_mass

SomaMomentos(hs, p) ==
    Sum4([i \in Idx |-> hs[i] * p.masses[i]])
    + (p.solar_panel_height * p.solar_panel_mass)
    + (p.antenna_height * p.antenna_mass)
    + (p.chassis_height * p.chassis_mass)

\* the except branch (return None) is never taken: numpy floats do not raise
calcula_cg(hs, p) == FDiv(SomaMomentos(hs, p), TotalMass(p))

\* variant: the upper end of the target range is not tested
InRange_NoUpper(cg, p) == Leq(Num(p.target_range[1]), cg)

InRange(cg, p) == Leq(Num(p.target_range[1]), cg) /\ Leq(cg, Num(p.target_range[2]))

MinM == BuildDistanceMatrix(params.min_dist)

MaxM == BuildDistanceMatrix(params.max_dist)

\* heights after lines 789-793
InitHeights(p) ==
    [i \in Idx |->
        IF i = 0 THEN Half(p.thicknesses[0])
        ELSE IF i = 3 THEN p.total_height - Half(p.thicknesses[3])
        ELSE 0]

MinAltura1(p, hs, perm) == Trunc(Half(p.thicknesses[perm[1]]))

MaxAltura1(p, hs, perm) ==
    Trunc(hs[3] - Half(p.thicknesses[3]) - Half(p.thicknesses[perm[1]]))

\* variant: the half thickness of the second element is not subtracted
MinAltura2_SelfHalf(p, perm, h1) ==
    Trunc(Float(h1)
          + Half(p.thicknesses[perm[1]])
          + Half(p.thicknesses[perm[2]])
          + BuildDistanceMatrix(p.min_dist)[perm[1]][perm[2]])

MinAltura2(p, perm, h1) ==
    Trunc(Float(h1)
          + Half(p.thicknesses[perm[1]])
          + Half(p.thicknesses[perm[2]])
          + BuildDistanceMatrix(p.min_dist)[perm[1]][perm[2]]
          - Half(p.thicknesses[perm[2]]))

\* variant: the whole thickness of the second element is kept clear of RAD
MaxAltura2_FullThk(p, hs, perm) ==
    Trunc(hs[3] - Half(p.thicknesses[3]) - p.thicknesses[perm[2]])

MaxAltura2(p, hs, perm) ==
    Trunc(hs[3] - Half(p.thicknesses[3]) - Half(p.thicknesses[perm[2]]))

\* the languages LANG_TEXTS has a table for
LANG_TEXTS == {"pt", "en"}

\* what the language box or the "language" key of a file can hold
LangInputs == {"pt", "en", "fr"}

\* tr(key) under the language lang: the lookup LANG_TEXTS[lang] raises KeyError
\* for a language without a table
TrRaises(lang) == lang \notin LANG_TEXTS

\* ------------------------------------------------------------------------
\* Actions
\* ------------------------------------------------------------------------
Init ==
    /\ params \in ScenarioSet
    /\ pc = "idle"
    /\ result = [kind |-> "empty"]
    /\ heights = NoneArr
    /\ best_cg = NoneCG
    /\ best_heights = NoneArr
    /\ permIdx = 0
    /\ height1 = None
    /\ height2 = None
    /\ min_altura_1 = None
    /\ max_altura_1 = None
    /\ min_altura_2 = None
    /\ max_altura_2 = None
    /\ n_visited = <<0, 0>>
    /\ memo = NoMemo
    /\ current_lang = "en"
    /\ notice = NoNotice
    /\ file = NoFile
    /\ saved = NoSaved
    /\ restored = "no"
    /\ fresh = FALSE

\* variant: best_cg lives on the object and is set once, not per calculation
OnCalcular_KeepBest ==
    /\ pc = "idle"
    /\ result' = [kind |-> "empty"]
    /\ best_cg' = IF best_cg = NoneCG THEN PosInf ELSE best_cg
    /\ best_heights' = NoneArr
    /\ heights' = InitHeights(params)
    /\ permIdx' = 1
    /\ height1' = None
    /\ height2' = None
    /\ min_altura_1' = None
    /\ max_altura_1' = None
    /\ min_altura_2' = None
    /\ max_altura_2' = None
    /\ n_visited' = <<0, 0>>
    /\ pc' = "perm"
    /\ notice' = NoNotice
    /\ UNCHANGED <<params, memo, current_lang, trip, fresh>>

\* _on_calcular up to the permutations loop: the text is cleared, the form is
\* read and the locals of a new _executar_calculo frame get their first values
OnCalcular ==
    /\ pc = "idle"
    /\ result' = [kind |-> "empty"]
    /\ best_cg' = PosInf
    /\ best_heights' = NoneArr
    /\ heights' = InitHeights(params)
    /\ permIdx' = 1
    /\ height1' = None
    /\ height2' = None
    /\ min_altura_1' = None
    /\ max_altura_1' = None
    /\ min_altura_2' = None
    /\ max_altura_2' = None
    /\ n_visited' = <<0, 0>>
    /\ pc' = "perm"
    /\ notice' = NoNotice
    /\ UNCHANGED <<params, memo, current_lang, trip, fresh>>

\* for perm in itertools.permutations(movable_indices): next permutation
NextPerm ==
    /\ pc = "perm"
    /\ permIdx <= Len(Perms)
    /\ pc' = "outer"
    /\ min_altura_1' = MinAltura1(params, heights, Perms[permIdx])
    /\ max_altura_1' = MaxAltura1(params, heights, Perms[permIdx])
    /\ height1' = MinAltura1(params, heights, Perms[permIdx])
    /\ UNCHANGED <<params, result, heights, best_cg, best_heights, permIdx,
                   height2, min_altura_2, max_altura_2, n_visited, memo, gui, trip, fresh>>

\* for height1 in range(...): next height of the first placed element
OuterIter ==
    /\ pc = "outer"
    /\ height1 <= max_altura_1
    /\ pc' = "inner"
    /\ heights' = [heights EXCEPT ![Perms[permIdx][1]] = Float(height1)]
    /\ min_altura_2' = MinAltura2(params, Perms[permIdx], height1)
    /\ max_altura_2' = MaxAltura2(params, heights, Perms[permIdx])
    /\ height2' = MinAltura2(params, Perms[permIdx], height1)
    /\ UNCHANGED <<params, result, best_cg, best_heights, permIdx, height1,
                   min_altura_1, max_altura_1, n_visited, memo, gui, trip, fresh>>

\* variant: an empty range of height1 ends the whole search
OuterExit_AbortOnEmpty ==
    /\ pc = "outer"
    /\ height1 > max_altura_1
    /\ permIdx' = IF height1 = min_altura_1 THEN Len(Perms) + 1 ELSE permIdx + 1
    /\ pc' = "perm"
    /\ UNCHANGED <<params, result, heights, best_cg, best_heights, height1, height2,
                   min_altura_1, max_altura_1, min_altura_2, max_altura_2,
                   n_visited, memo, gui, trip, fresh>>

\* the range of height1 is exhausted: on to the next permutation
OuterExit ==
    /\ pc = "outer"
    /\ height1 > max_altura_1
    /\ permIdx' = permIdx + 1
    /\ pc' = "perm"
    /\ UNCHANGED <<params, result, heights, best_cg, best_heights, height1, height2,
                   min_altura_1, max_altura_1, min_altura_2, max_altura_2,
                   n_visited, memo, gui, trip, fresh>>

\* the candidate: heights with the second element at h2
WithHeight2(h2) == [heights EXCEPT ![Perms[permIdx][2]] = Float(h2)]

\* variant: any in-range candidate replaces the recorded best
Qualifies_NoBest(hs) ==
    /\ verifica_distancias_minmax(hs, params.thicknesses, MinM, MaxM)
    /\ InRange(calcula_cg(hs, params), params)

\* variant: the pairwise check is skipped, the loop bounds are trusted
Qualifies_NoCheck(hs) ==
    /\ InRange(calcula_cg(hs, params), params)
    /\ Lt(calcula_cg(hs, params), best_cg)

\* variant: both ends of the target range exclusive
Qualifies_Exclusive(hs) ==
    /\ verifica_distancias_minmax(hs, params.thicknesses, MinM, MaxM)
    /\ Lt(Num(params.target_range[1]), calcula_cg(hs, params))
    /\ Lt(calcula_cg(hs, params), Num(params.target_range[2]))
    /\ Lt(calcula_cg(hs, params), best_cg)

\* variant: a candidate with an equal CG also replaces the recorded best
Qualifies_LastTie(hs) ==
    /\ verifica_distancias_minmax(hs, params.thicknesses, MinM, MaxM)
    /\ InRange(calcula_cg(hs, params), params)
    /\ Leq(calcula_cg(hs, params), best_cg)

\* lines 819-837 for one candidate: distance check, CG, range and comparison
Qualifies(hs) ==
    /\ verifica_distancias_minmax(hs, params.thicknesses, MinM, MaxM)
    /\ calcula_cg(hs, params) # NoneCG
    /\ InRange(calcula_cg(hs, params), params)
    /\ Lt(calcula_cg(hs, params), best_cg)

\* variant: best_heights = heights without .copy(), so that the recorded
\* array is the working array and follows every later write to it
InnerIter_NoCopy ==
    /\ pc = "inner"
    /\ height2 <= max_altura_2
    /\ heights' = WithHeight2(height2)
    /\ best_cg' = IF Qualifies(WithHeight2(height2))
                  THEN calcula_cg(WithHeight2(height2), params) ELSE best_cg
    /\ best_heights' = IF Qualifies(WithHeight2(height2)) \/ best_heights # NoneArr
                       THEN WithHeight2(height2) ELSE NoneArr
    /\ height2' = height2 + 1
    /\ n_visited' = [n_visited EXCEPT ![permIdx] = @ + 1]
    /\ UNCHANGED <<params, pc, result, permIdx, height1,
                   min_altura_1, max_altura_1, min_altura_2, max_altura_2, memo, gui, trip, fresh>>

\* variant: a while loop over height2 that goes back to the start of the range
\* each time a new best is recorded
InnerIter_Restart ==
    /\ pc = "inner"
    /\ height2 <= max_altura_2
    /\ heights' = WithHeight2(height2)
    /\ IF Qualifies(WithHeight2(height2))
       THEN /\ best_cg' = calcula_cg(WithHeight2(height2), params)
            /\ best_heights' = WithHeight2(height2)
            /\ height2' = min_altura_2
       ELSE /\ UNCHANGED <<best_cg, best_heights>>
            /\ height2' = height2 + 1
    /\ n_visited' = [n_visited EXCEPT ![permIdx] = @ + 1]
    /\ UNCHANGED <<params, pc, result, permIdx, height1,
                   min_altura_1, max_altura_1, min_altura_2, max_altura_2, memo, gui, trip, fresh>>

\* for height2 in range(...): one candidate
InnerIter ==
    /\ pc = "inner"
    /\ height2 <= max_altura_2
    /\ heights' = WithHeight2(height2)
    /\ IF Qualifies(WithHeight2(height2))
       THEN /\ best_cg' = calcula_cg(WithHeight2(height2), params)
            /\ best_heights' = WithHeight2(height2)
       ELSE UNCHANGED <<best_cg, best_heights>>
    /\ height2' = height2 + 1
    /\ n_visited' = [n_visited EXCEPT ![permIdx] = @ + 1]
    /\ UNCHANGED <<params, pc, result, permIdx, height1,
                   min_altura_1, max_altura_1, min_altura_2, max_altura_2, memo, gui, trip, fresh>>

\* the range of height2 is exhausted: on to the next height1
InnerExit ==
    /\ pc = "inner"
    /\ height2 > max_altura_2
    /\ height1' = height1 + 1
    /\ pc' = "outer"
    /\ UNCHANGED <<params, result, heights, best_cg, best_heights, permIdx, height2,
                   min_altura_1, max_altura_1, min_altura_2, max_altura_2,
                   n_visited, memo, gui, trip, fresh>>

\* lines 841-849: the text returned to _on_calcular and appended to the result box
ResultText ==
    IF best_heights # NoneArr
    THEN [kind |-> "res_best_config", heights |-> best_heights, cg |-> best_cg]
    ELSE [kind |-> "res_no_config"]

\* the return of _executar_calculo into _on_calcular. Under a language without
\* a table tr raises at line 842 or 847, again in the handler at line 852 and
\* again in the handler of _on_calcular at line 750: the box stays empty
ReportCore ==
    /\ pc = "perm"
    /\ permIdx > Len(Perms)
    /\ result' = IF TrRaises(current_lang) THEN [kind |-> "empty"] ELSE ResultText
    /\ pc' = "idle"
    /\ UNCHANGED <<params, locals, n_visited, gui, trip>>

Report == ReportCore /\ UNCHANGED <<memo, fresh>>

Next ==
    \/ OnCalcular
    \/ NextPerm
    \/ OuterIter
    \/ OuterExit
    \/ InnerIter
    \/ InnerExit
    \/ Report

Spec == Init /\ [][Next]_vars

\* _executar_calculo is one synchronous call on the Tk thread: once Calculate
\* is pressed, the loops and the report keep taking steps until the call returns
SearchStep ==
    \/ NextPerm
    \/ OuterIter
    \/ OuterExit
    \/ InnerIter
    \/ InnerExit
    \/ Report

\* what every step of a running search changes: the position in the code
\* and, inside the innermost loop, its counter
Position == <<pc, permIdx, IF pc = "inner" THEN height2 ELSE 0>>

\* the forms the fair runs start from
FairSet == {Default} \cup DistFamily \cup InvertedFamily

InitFair ==
    /\ Init
    /\ params \in FairSet

SpecFair == InitFair /\ [][Next]_vars /\ WF_Position(SearchStep)

\* ------------------------------------------------------------------------
\* A session: several calculations, the form edited in between
\* ------------------------------------------------------------------------
InitSession ==
    /\ Init
    /\ params \in SessionSet

\* the user types other values into the form; the result box keeps its text
EditForm ==
    /\ pc = "idle"
    /\ params' \in SessionSet \ {params}
    /\ restored' = "no"
    /\ fresh' = FALSE
    /\ UNCHANGED <<pc, result, locals, n_visited, memo, gui, file, saved>>

Bump(n) == IF n < MaxRuns THEN n + 1 ELSE n

\* Report, with the history of the session kept: the first finished
\* calculation, and how many with the same and with another form followed it
SessionReport ==
    /\ ReportCore
    /\ memo' = IF ~memo.set
               THEN [set |-> TRUE, p |-> params, r |-> ResultText, same |-> 0, other |-> 0]
               ELSE IF memo.p = params
               THEN [memo EXCEPT !.same = Bump(@)]
               ELSE [memo EXCEPT !.other = Bump(@)]
    /\ UNCHANGED fresh

NextSession ==
    \/ OnCalcular
    \/ NextPerm
    \/ OuterIter
    \/ OuterExit
    \/ InnerIter
    \/ InnerExit
    \/ SessionReport
    \/ EditForm

SpecSession == InitSession /\ [][NextSession]_vars

\* ------------------------------------------------------------------------
\* Language and configuration files
\* ------------------------------------------------------------------------
MassKey == [i \in Idx |-> <<"mass_pl", "mass_eps", "mass_obc", "mass_rad">>[i + 1]]

ThkKey == [i \in Idx |-> <<"thk_pl", "thk_eps", "thk_obc", "thk_rad">>[i + 1]]

ScalarKeys ==
    {MassKey[i] : i \in Idx} \cup {ThkKey[i] : i \in Idx} \cup
    {"solar_mass", "solar_height", "antenna_mass", "antenna_height",
     "chassis_mass", "chassis_height", "total_height", "target_min", "target_max"}

\* the value _export_config stores under a scalar key
ScalarOf(p, key) ==
    CASE key = "solar_mass" -> p.solar_panel_mass
      [] key = "solar_height" -> p.solar_panel_height
      [] key = "antenna_mass" -> p.antenna_mass
      [] key = "antenna_height" -> p.antenna_height
      [] key = "chassis_mass" -> p.chassis_mass
      [] key = "chassis_height" -> p.chassis_height
      [] key = "total_height" -> p.total_height
      [] key = "target_min" -> p.target_range[1]
      [] key = "target_max" -> p.target_range[2]
      [] key \in {MassKey[i] : i \in Idx} -> p.masses[CHOOSE i \in Idx : MassKey[i] = key]
      [] key \in {ThkKey[i] : i \in Idx} -> p.thicknesses[CHOOSE i \in Idx : ThkKey[i] = key]

\* the key of a pair in the two distance dictionaries: pair[0] + "_" + pair[1]
PairKey(pr) == component_names[pr[1] + 1] \o "_" \o component_names[pr[2] + 1]

PairKeys == {PairKey(pr) : pr \in PairSet}

\* variant: the loop over component_pairs is left out, both distance
\* dictionaries stay empty
ExportConfig_NoDists(p, lang) ==
    [ scalars |-> [key \in ScalarKeys |-> ScalarOf(p, key)],
      min_dists |-> << >>,
      max_dists |-> << >>,
      language |-> <<lang>> ]

\* _export_config: the dictionary that is written to the file; language is a
\* sequence, empty when the file has no "language" key
ExportConfig(p, lang) ==
    [ scalars |-> [key \in ScalarKeys |-> ScalarOf(p, key)],
      min_dists |-> [key \in PairKeys |-> p.min_dist[CHOOSE pr \in PairSet : PairKey(pr) = key]],
      max_dists |-> [key \in PairKeys |-> p.max_dist[CHOOSE pr \in PairSet : PairKey(pr) = key]],
      language |-> <<lang>> ]

\* cfg.get(key, default)
Get(cfg, key, default) ==
    IF key \in DOMAIN cfg.scalars THEN cfg.scalars[key] ELSE default

\* _import_config up to the language: the form after the file is applied. A
\* missing scalar key gives the literal default of the code, a missing
\* distance key leaves the field as it is
ImportConfig(p, cfg) ==
    [ masses |-> [i \in Idx |-> Get(cfg, MassKey[i], Default.masses[i])],
      thicknesses |-> [i \in Idx |-> Get(cfg, ThkKey[i], Default.thicknesses[i])],
      solar_panel_mass |-> Get(cfg, "solar_mass", Default.solar_panel_mass),
      solar_panel_height |-> Get(cfg, "solar_height", Default.solar_panel_height),
      antenna_mass |-> Get(cfg, "antenna_mass", Default.antenna_mass),
      antenna_height |-> Get(cfg, "antenna_height", Default.antenna_height),
      chassis_mass |-> Get(cfg, "chassis_mass", Default.chassis_mass),
      chassis_height |-> Get(cfg, "chassis_height", Default.chassis_height),
      total_height |-> Get(cfg, "total_height", Default.total_height),
      target_range |-> << Get(cfg, "target_min", Default.target_range[1]),
                          Get(cfg, "target_max", Default.target_range[2]) >>,
      min_dist |-> [pr \in PairSet |->
                      IF PairKey(pr) \in DOMAIN cfg.min_dists
                      THEN cfg.min_dists[PairKey(pr)] ELSE p.min_dist[pr]],
      max_dist |-> [pr \in PairSet |->
                      IF PairKey(pr) \in DOMAIN cfg.max_dists
                      THEN cfg.max_dists[PairKey(pr)] ELSE p.max_dist[pr]] ]

\* the same dictionary with only the scalar keys ks and the pairs prs left
Partial(cfg, ks, prs) ==
    [ cfg EXCEPT !.scalars = [key \in ks |-> cfg.scalars[key]],
                 !.min_dists = [key \in {PairKey(pr) : pr \in prs} |-> cfg.min_dists[key]],
                 !.max_dists = [key \in {PairKey(pr) : pr \in prs} |-> cfg.max_dists[key]] ]

WithoutLanguage(cfg) == [cfg EXCEPT !.language = << >>]

\* the forms that were saved to files
ConfigForms == SessionSet \cup {Default}

\* the files a user can pick: saved by the program under either language,
\* or edited by hand (another language, no language, keys removed, {})
ConfigFiles ==
    LET written == {ExportConfig(p, l) : p \in ConfigForms, l \in LangInputs}
    IN  written
        \cup {WithoutLanguage(c) : c \in written}
        \cup {Partial(c, ScalarKeys \ {MassKey[1], "target_min"}, PairSet \ {<<1, 2>>}) : c \in written}
        \cup {WithoutLanguage(Partial(c, {}, {})) : c \in written}

\* _on_apply_lang: OK next to the language box, whose text is new_lang
OnApplyLang ==
    /\ pc = "idle"
    /\ \E new_lang \in LangInputs :
          /\ new_lang \in {"pt", "en"}
          /\ current_lang' = new_lang
    /\ restored' = "no"
    /\ fresh' = FALSE
    /\ UNCHANGED <<params, pc, result, locals, n_visited, memo, notice, file, saved>>

\* _on_load_config with a file that json.load reads: _import_config sets the
\* form, then set_language assigns current_lang and looks up the title; an
\* exception there, or in tr("msg_config_loaded"), reaches the handler, whose
\* own tr('res_error') raises again under a language without a table
LoadConfig(cfg) ==
    /\ pc = "idle"
    /\ params' = ImportConfig(params, cfg)
    /\ current_lang' = IF cfg.language # << >> THEN cfg.language[1] ELSE current_lang
    /\ notice' = IF TrRaises(current_lang') THEN notice ELSE "msg_config_loaded"
    /\ fresh' = FALSE
    /\ UNCHANGED <<pc, result, locals, n_visited, memo, file, saved>>

\* a file from somewhere else is picked
OnLoadConfig ==
    /\ \E cfg \in ConfigFiles : LoadConfig(cfg)
    /\ restored' = "no"

\* _on_load_config with a file that json.load rejects: the handler appends
\* the error text, if tr finds it
OnLoadUnreadable ==
    /\ pc = "idle"
    /\ ~TrRaises(current_lang)
    /\ notice' = "res_error"
    /\ UNCHANGED <<params, pc, result, locals, n_visited, memo, current_lang, trip, fresh>>

NextConfig ==
    \/ OnApplyLang
    \/ OnLoadConfig
    \/ OnLoadUnreadable
    \/ EditForm

SpecConfig == InitSession /\ [][NextConfig]_vars

\* ------------------------------------------------------------------------
\* Saving a configuration and loading it again
\* ------------------------------------------------------------------------
MassKeys == {MassKey[i] : i \in Idx} \cup {"solar_mass", "antenna_mass", "chassis_mass"}

\* how many units of the model make 1.0 of the float under a key: masses are
\* whole, lengths are counted in half millimetres
Unit(key) == IF key \in MassKeys THEN 1 ELSE 2

Abs(x) == IF x < 0 THEN 0 - x ELSE x

\* json.dump of a float: sign, digits before the point, digit after it
FloatRepr(v, unit) ==
    [ neg |-> v < 0,
      whole |-> Abs(v) \div unit,
      frac |-> (10 * (Abs(v) % unit)) \div unit ]

\* json.load of such a number
ParseFloat(t, unit) ==
    (IF t.neg THEN 0 - 1 ELSE 1) * (unit * t.whole + (unit * t.frac) \div 10)

\* json.dump(cfg, f): the text of the file
JsonDump(cfg) ==
    [ scalars |-> [key \in DOMAIN cfg.scalars |-> FloatRepr(cfg.scalars[key], Unit(key))],
      min_dists |-> [key \in DOMAIN cfg.min_dists |-> FloatRepr(cfg.min_dists[key], 2)],
      max_dists |-> [key \in DOMAIN cfg.max_dists |-> FloatRepr(cfg.max_dists[key], 2)],
      language |-> cfg.language ]

\* json.load(f): the dictionary read from the text
JsonLoad(text) ==
    [ scalars |-> [key \in DOMAIN text.scalars |-> ParseFloat(text.scalars[key], Unit(key))],
      min_dists |-> [key \in DOMAIN text.min_dists |-> ParseFloat(text.min_dists[key], 2)],
      max_dists |-> [key \in DOMAIN text.max_dists |-> ParseFloat(text.max_dists[key], 2)],
      language |-> text.language ]

\* _on_save_config: the name proposed in the dialog is tr("default_config_name"),
\* so that under a language without a table the handler ends before the dialog
OnSaveConfig ==
    /\ pc = "idle"
    /\ ~TrRaises(current_lang)
    /\ file' = JsonDump(ExportConfig(params, current_lang))
    /\ notice' = "msg_config_saved"
    /\ saved' = [ set |-> TRUE, p |-> params, lang |-> current_lang,
                  r |-> IF fresh THEN result ELSE [kind |-> "unknown"] ]
    /\ restored' = "no"
    /\ UNCHANGED <<params, pc, result, locals, n_visited, memo, current_lang, fresh>>

\* _on_load_config with the file that was saved last
OnLoadSaved ==
    /\ file # NoFile
    /\ LoadConfig(JsonLoad(file))
    /\ restored' = IF params' = params /\ current_lang' = current_lang
                   THEN "kept" ELSE "replaced"

\* files saved by a copy of the program that has another language table
ForeignFiles == {ExportConfig(p, "fr") : p \in SessionSet}

OnLoadForeign ==
    /\ \E cfg \in ForeignFiles : LoadConfig(cfg)
    /\ restored' = "no"

\* Report, with the history that the box now shows the outcome of the form
TripReport ==
    /\ ReportCore
    /\ fresh' = TRUE
    /\ UNCHANGED memo

\* the forms a session with saves and loads starts from: those of SessionSet,
\* one with a half millimetre in the total height and negative minimum
\* distances, one with a minimum distance of -0.5 mm
TripSet ==
    SessionSet \cup
    { [SmallLoose EXCEPT !.total_height = 2 * MaxHeight - 1],
      [Small EXCEPT !.min_dist[<<1, 2>>] = 0 - 1, !.max_dist[<<1, 2>>] = 2 * MaxDist - 1] }

InitRoundTrip ==
    /\ Init
    /\ params \in TripSet

NextRoundTrip ==
    \/ OnCalcular
    \/ NextPerm
    \/ OuterIter
    \/ OuterExit
    \/ InnerIter
    \/ InnerExit
    \/ TripReport
    \/ EditForm
    \/ OnApplyLang
    \/ OnSaveConfig
    \/ OnLoadSaved
    \/ OnLoadForeign

SpecRoundTrip == InitRoundTrip /\ [][NextRoundTrip]_vars

\* ------------------------------------------------------------------------
\* What the claims speak about
\* ------------------------------------------------------------------------
\* a calculation has finished and its outcome is on display
Done == pc = "idle" /\ result.kind # "empty"

Found == Done /\ result.kind = "res_best_config"

NotFound == Done /\ result.kind = "res_no_config"

\* the (height1, height2) pairs inside the loop bounds of permutation k
Pairs12(p, k) ==
    UNION { { <<h1, h2>> :
                h2 \in MinAltura2(p, Perms[k], h1)..MaxAltura2(p, InitHeights(p), Perms[k]) } :
            h1 \in MinAltura1(p, InitHeights(p), Perms[k])..MaxAltura1(p, InitHeights(p), Perms[k]) }

\* the heights they stand for
CandidatesOf(p, k) ==
    { [InitHeights(p) EXCEPT ![Perms[k][1]] = Float(hh[1]), ![Perms[k][2]] = Float(hh[2])] :
        hh \in Pairs12(p, k) }

Candidates(p) == CandidatesOf(p, 1) \cup CandidatesOf(p, 2)

\* edge gap of the pair pr: low edge of the higher one minus high edge of the lower one
Gap(p, hs, pr) ==
    IF hs[pr[1]] <= hs[pr[2]]
    THEN (hs[pr[2]] - Half(p.thicknesses[pr[2]])) - (hs[pr[1]] + Half(p.thicknesses[pr[1]]))
    ELSE (hs[pr[1]] - Half(p.thicknesses[pr[1]])) - (hs[pr[2]] + Half(p.thicknesses[pr[2]]))

\* the full pairwise check, pair by pair
Feasible(p, hs) ==
    \A pr \in PairSet : p.min_dist[pr] <= Gap(p, hs, pr) /\ Gap(p, hs, pr) <= p.max_dist[pr]

\* a candidate that passes the distance check with its CG in the target range
Eligible(p, hs) == Feasible(p, hs) /\ InRange(calcula_cg(hs, p), p)

\* ------------------------------------------------------------------------
\* Claims
\* ------------------------------------------------------------------------

\* C1 (optimality): when a best configuration is reported, no enumerated
\* candidate (either nesting order, every height pair inside the loop bounds)
\* that passes the pairwise check with its CG in the target range has a CG
\* strictly lower than the reported one.
C1_Optimality ==
    Found =>
        \A hs \in Candidates(params) :
            Eligible(params, hs) => ~Lt(calcula_cg(hs, params), result.cg)

\* a report that beat at least one other eligible candidate
C1_Witness ==
    /\ Found
    /\ \E hs \in Candidates(params) :
          Eligible(params, hs) /\ Lt(result.cg, calcula_cg(hs, params))

\* C2 (feasibility closure): the recorded best heights, and so every reported
\* configuration, satisfy min <= gap <= max for all six pairs; being inside
\* the loop bounds is never enough to be recorded.
C2_FeasibilityClosure ==
    /\ best_heights # NoneArr => Feasible(params, best_heights)
    /\ Found => Feasible(params, result.heights)

\* a report in a scenario whose loop bounds let infeasible candidates through
C2_Witness ==
    /\ Found
    /\ \E hs \in Candidates(params) :
          ~Feasible(params, hs) /\ InRange(calcula_cg(hs, params), params)

\* C3 (CG range): every reported CG satisfies target_min <= cg <= target_max,
\* and with a zero-width range (X, X) the reported CG equals X exactly.
C3_CGRange ==
    Found =>
        /\ Leq(Num(params.target_range[1]), result.cg)
        /\ Leq(result.cg, Num(params.target_range[2]))
        /\ params.target_range[1] = params.target_range[2]
              => result.cg.num = params.target_range[1] * result.cg.den

\* a zero-width range hit exactly while other feasible candidates miss it
C3_Witness ==
    /\ Found
    /\ params.target_range[1] = params.target_range[2]
    /\ \E hs \in Candidates(params) :
          Feasible(params, hs) /\ ~InRange(calcula_cg(hs, params), params)

\* C4 (NotFound): the outcome is "no valid configuration" exactly when no
\* enumerated candidate passes the pairwise check with its CG in the target
\* range; otherwise a best configuration is reported; never an error text.
C4_NotFoundIff ==
    Done =>
        /\ result.kind \in {"res_best_config", "res_no_config"}
        /\ result.kind = "res_no_config"
              <=> ~(\E hs \in Candidates(params) : Eligible(params, hs))

\* NotFound although feasible candidates and in-range candidates both exist
C4_Witness ==
    /\ NotFound
    /\ \E hs \in Candidates(params) : Feasible(params, hs)
    /\ \E hs \in Candidates(params) : InRange(calcula_cg(hs, params), params)

\* C5 (degenerate mass): with zero total mass the outcome is an explicit
\* InvalidScenario error, distinct from a best configuration and from
\* "no valid configuration".
C5_ZeroMassInvalid ==
    (Done /\ TotalMass(params) = 0) => result.kind = "InvalidScenario"

\* C6 (determinism, statelessness): a calculation started on the form of the
\* first finished calculation reports the same outcome (kind, heights, CG) as
\* that first one, whatever was calculated in between, and every calculation
\* starts from best_cg = inf, best_heights = None and heights holding only the
\* two fixed heights.
C6_Determinism ==
    [][ /\ (pc = "perm" /\ pc' = "idle" /\ memo.set /\ memo.p = params) => result' = memo.r
        /\ (pc = "idle" /\ pc' = "perm")
              => (best_cg' = PosInf /\ best_heights' = NoneArr /\ heights' = InitHeights(params))
      ]_vars

\* the first form recalculated after calculations on other forms, with the
\* same best configuration reported although another candidate ties with it
C6_Witness ==
    /\ Found
    /\ memo.set /\ memo.p = params /\ memo.same >= 1 /\ memo.other >= 1
    /\ result = memo.r
    /\ \E hs \in Candidates(params) :
          /\ hs # result.heights
          /\ Eligible(params, hs)
          /\ calcula_cg(hs, params) = result.cg

\* C7 (reference scenario): the default form yields a best configuration with
\* 40 <= CG <= 60 mm whose EPS and OBC heights keep every gap against PL, RAD
\* and each other within [0, 9999] mm.
C7_Reference ==
    (Done /\ params = Default) =>
        /\ result.kind = "res_best_config"
        /\ Leq(Num(80), result.cg) /\ Leq(result.cg, Num(120))
        /\ \A pr \in PairSet :
              (pr[1] \in {1, 2} \/ pr[2] \in {1, 2})
                 => (0 <= Gap(Default, result.heights, pr) /\ Gap(Default, result.heights, pr) <= Big)

\* the default form calculated, EPS and OBC moved off their initial zero
C7_Witness ==
    /\ Found
    /\ params = Default
    /\ result.heights[1] > 0
    /\ result.heights[2] > 0

\* C8 (min > max): when some pair has min_distance > max_distance the outcome
\* is "no valid configuration", never a best configuration or an error.
C8_MinAboveMax ==
    (Done /\ \E pr \in PairSet : params.min_dist[pr] > params.max_dist[pr])
        => result.kind = "res_no_config"

\* NotFound with an inverted pair although some candidate is in range and
\* meets the bounds of the five other pairs and the minimum of the inverted one
C8_Witness ==
    /\ NotFound
    /\ \E pr \in PairSet :
          /\ params.min_dist[pr] > params.max_dist[pr]
          /\ \E hs \in Candidates(params) :
                /\ InRange(calcula_cg(hs, params), params)
                /\ params.min_dist[pr] <= Gap(params, hs, pr)
                /\ \A q \in PairSet \ {pr} :
                      params.min_dist[q] <= Gap(params, hs, q) /\ Gap(params, hs, q) <= params.max_dist[q]

EmptyLevel1(p, k) ==
    MaxAltura1(p, InitHeights(p), Perms[k]) < MinAltura1(p, InitHeights(p), Perms[k])

EmptyLevel2(p, k) ==
    \E h1 \in MinAltura1(p, InitHeights(p), Perms[k])..MaxAltura1(p, InitHeights(p), Perms[k]) :
        MaxAltura2(p, InitHeights(p), Perms[k]) < MinAltura2(p, Perms[k], h1)

\* C9 (degenerate ranges): a permutation whose first-level range is empty
\* contributes no candidate; no error text is produced; and once the search
\* has finished, each permutation has had exactly the candidates inside its
\* own loop bounds visited (an empty second-level range adding none), whatever
\* ranges were empty before.
C9_DegenerateRanges ==
    /\ result.kind \in {"empty", "res_best_config", "res_no_config"}
    /\ \A k \in 1..Len(Perms) :
          (pc # "idle" /\ EmptyLevel1(params, k)) => n_visited[k] = 0
    /\ Done => \A k \in 1..Len(Perms) : n_visited[k] = Cardinality(Pairs12(params, k))

\* the first permutation has an empty first-level range and adds nothing,
\* and the best configuration reported comes from the second permutation
C9_Witness ==
    /\ Found
    /\ EmptyLevel1(params, 1)
    /\ n_visited[1] = 0
    /\ n_visited[2] > 0
    /\ result.heights \in CandidatesOf(params, 2)

\* C10 as amended (second-level range): the second element's heights start at
\* trunc(predecessor_height + predecessor_thickness/2 + min_distance), the own
\* half thickness being added and subtracted again, end at
\* trunc(RAD.low - own_thickness/2), and are taken in steps of 1.
C10_SecondLevelRange ==
    pc = "inner" =>
        /\ min_altura_2 = Trunc(Float(height1)
                                + Half(params.thicknesses[Perms[permIdx][1]])
                                + MinM[Perms[permIdx][1]][Perms[permIdx][2]])
        /\ max_altura_2 = Trunc((params.total_height - params.thicknesses[3])
                                - Half(params.thicknesses[Perms[permIdx][2]]))
        /\ height2 >= min_altura_2
        /\ height2 > min_altura_2
              => (height2 <= max_altura_2 + 1
                  /\ heights[Perms[permIdx][2]] = Float(height2 - 1))

\* a non-empty second-level range run to its end, for an element whose half
\* thickness would have moved the start
C10_Witness ==
    /\ pc = "inner"
    /\ height2 = max_altura_2 + 1
    /\ height2 > min_altura_2
    /\ min_altura_2 # Trunc(Float(height1)
                            + Half(params.thicknesses[Perms[permIdx][1]])
                            + MinM[Perms[permIdx][1]][Perms[permIdx][2]]
                            + Half(params.thicknesses[Perms[permIdx][2]]))

\* C10 as stated: the second element's heights start at
\* trunc(predecessor_height + predecessor_thickness/2 + min_distance + own_thickness/2).
C10_Original ==
    pc = "inner" =>
        min_altura_2 = Trunc(Float(height1)
                             + Half(params.thicknesses[Perms[permIdx][1]])
                             + MinM[Perms[permIdx][1]][Perms[permIdx][2]]
                             + Half(params.thicknesses[Perms[permIdx][2]]))

\* whole-millimetre heights from 0 to beyond the top of the stack
HeightUniverse(p) == 0..(Trunc(p.total_height + p.thicknesses[1] + p.thicknesses[2]) + 1)

\* EPS at hE mm and OBC at hO mm between the two fixed elements
Placed(p, hE, hO) == [InitHeights(p) EXCEPT ![1] = Float(hE), ![2] = Float(hO)]

PositiveThkNonNegMin(p) ==
    /\ \A i \in Idx : p.thicknesses[i] > 0
    /\ \A pr \in PairSet : p.min_dist[pr] >= 0

\* permutation k reaches EPS at hE and OBC at hO: both inside its loop bounds
InLoopBounds(p, k, hE, hO) ==
    LET h1 == IF Perms[k][1] = 1 THEN hE ELSE hO
        h2 == IF Perms[k][2] = 1 THEN hE ELSE hO
    IN  /\ MinAltura1(p, InitHeights(p), Perms[k]) <= h1
        /\ h1 <= MaxAltura1(p, InitHeights(p), Perms[k])
        /\ MinAltura2(p, Perms[k], h1) <= h2
        /\ h2 <= MaxAltura2(p, InitHeights(p), Perms[k])

Enumerated(p, hE, hO) == \E k \in 1..Len(Perms) : InLoopBounds(p, k, hE, hO)

\* neither movable centre is above the centre of RAD
NotAboveRAD(hs) == hs[1] <= hs[3] /\ hs[2] <= hs[3]

\* C11 as amended (pruning is necessary-only): with positive thicknesses and
\* minimum distances >= 0, every non-negative integer placement of EPS and OBC
\* that passes the pairwise check and has no movable centre above RAD's centre
\* is inside the loop bounds of one of the two permutations, and a reported CG
\* is minimal over all such in-range placements.
C11_PruningNecessaryOnly ==
    (Done /\ PositiveThkNonNegMin(params)) =>
        \A hE \in HeightUniverse(params) : \A hO \in HeightUniverse(params) :
            (Feasible(params, Placed(params, hE, hO)) /\ NotAboveRAD(Placed(params, hE, hO)))
               => /\ Enumerated(params, hE, hO)
                  /\ (Found /\ InRange(calcula_cg(Placed(params, hE, hO), params), params))
                        => ~Lt(calcula_cg(Placed(params, hE, hO), params), result.cg)

\* a report where feasible placements exist both under RAD (all enumerated)
\* and with a movable element above RAD (outside every loop bound)
C11_Witness ==
    /\ Found
    /\ PositiveThkNonNegMin(params)
    /\ \E hE \in HeightUniverse(params) : \E hO \in HeightUniverse(params) :
          /\ Feasible(params, Placed(params, hE, hO))
          /\ NotAboveRAD(Placed(params, hE, hO))
          /\ Placed(params, hE, hO) # result.heights
    /\ \E hE \in HeightUniverse(params) : \E hO \in HeightUniverse(params) :
          /\ Feasible(params, Placed(params, hE, hO))
          /\ ~NotAboveRAD(Placed(params, hE, hO))

\* C11 as stated: every non-negative integer placement that passes the
\* pairwise check is inside the loop bounds of one of the two permutations.
C11_Original ==
    (Done /\ PositiveThkNonNegMin(params)) =>
        \A hE \in HeightUniverse(params) : \A hO \in HeightUniverse(params) :
            Feasible(params, Placed(params, hE, hO)) => Enumerated(params, hE, hO)

\* the candidates as visits: <<permutation, height1, height2>>
Triples(p) == UNION { { <<k, hh[1], hh[2]>> : hh \in Pairs12(p, k) } : k \in 1..Len(Perms) }

HeightsOf(p, t) ==
    [InitHeights(p) EXCEPT ![Perms[t[1]][1]] = Float(t[2]), ![Perms[t[1]][2]] = Float(t[3])]

\* t is visited before u: permutation first, then height1, then height2
Before(t, u) ==
    \/ t[1] < u[1]
    \/ t[1] = u[1] /\ t[2] < u[2]
    \/ t[1] = u[1] /\ t[2] = u[2] /\ t[3] < u[3]

\* the visits that qualify with exactly the CG c
Ties(p, c) ==
    { t \in Triples(p) : Eligible(p, HeightsOf(p, t)) /\ calcula_cg(HeightsOf(p, t), p) = c }

\* C12 (tie-break by first-found): the reported heights are those of the
\* qualifying candidate with the reported CG that comes first in the order
\* permutation (EPS, OBC) before (OBC, EPS), height1 ascending, height2
\* ascending.
C12_FirstFound ==
    Found =>
        \E t \in Ties(params, result.cg) :
            /\ HeightsOf(params, t) = result.heights
            /\ \A u \in Ties(params, result.cg) : ~Before(u, t)

\* a report with a tie between different heights of the two permutations
C12_Witness ==
    /\ Found
    /\ \E t \in Ties(params, result.cg) : \E u \in Ties(params, result.cg) :
          /\ t[1] = 1
          /\ u[1] = 2
          /\ HeightsOf(params, t) # HeightsOf(params, u)
          /\ HeightsOf(params, t) = result.heights

\* mass-weighted average of the four component heights hs and the three
\* external heights
WeightedAverage(p, hs) ==
    FDiv(p.masses[0] * hs[0] + p.masses[1] * hs[1] + p.masses[2] * hs[2] + p.masses[3] * hs[3]
           + p.solar_panel_mass * p.solar_panel_height
           + p.antenna_mass * p.antenna_height
           + p.chassis_mass * p.chassis_height,
         p.masses[0] + p.masses[1] + p.masses[2] + p.masses[3]
           + p.solar_panel_mass + p.antenna_mass + p.chassis_mass)

\* C13 (reported CG): at every step the recorded best_cg is the mass-weighted
\* average at exactly the recorded best_heights, whatever the loops have
\* written into the working heights since, and so is the CG of every report.
C13_ReportedCG ==
    /\ best_heights # NoneArr => best_cg = WeightedAverage(params, best_heights)
    /\ Found => result.cg = WeightedAverage(params, result.heights)

\* a report whose working heights were overwritten after the best was
\* recorded, to heights with another CG
C13_Witness ==
    /\ Found
    /\ heights # result.heights
    /\ WeightedAverage(params, heights) # result.cg

IntervalLow(p, hs, i) == hs[i] - Half(p.thicknesses[i])

IntervalHigh(p, hs, i) == hs[i] + Half(p.thicknesses[i])

\* length of the intersection of the occupied intervals of i and j
\* (negative or zero when they do not overlap)
OverlapLength(p, hs, i, j) ==
    (IF IntervalHigh(p, hs, i) <= IntervalHigh(p, hs, j)
        THEN IntervalHigh(p, hs, i) ELSE IntervalHigh(p, hs, j))
    - (IF IntervalLow(p, hs, i) >= IntervalLow(p, hs, j)
        THEN IntervalLow(p, hs, i) ELSE IntervalLow(p, hs, j))

NonNegMin(p) == \A pr \in PairSet : p.min_dist[pr] >= 0

\* C14 (no overlap): when every minimum distance is >= 0, no recorded or
\* reported configuration has two components whose occupied intervals
\* overlap with positive length.
C14_NoOverlap ==
    NonNegMin(params) =>
        /\ best_heights # NoneArr
              => \A pr \in PairSet : OverlapLength(params, best_heights, pr[1], pr[2]) <= 0
        /\ Found
              => \A pr \in PairSet : OverlapLength(params, result.heights, pr[1], pr[2]) <= 0

\* a report with two components of positive thickness touching edge to edge
\* under a minimum of exactly 0
C14_Witness ==
    /\ Found
    /\ NonNegMin(params)
    /\ \E pr \in PairSet :
          /\ params.min_dist[pr] = 0
          /\ params.thicknesses[pr[1]] > 0
          /\ params.thicknesses[pr[2]] > 0
          /\ Gap(params, result.heights, pr) = 0
          /\ OverlapLength(params, result.heights, pr[1], pr[2]) = 0

Transposed(m) == [i \in Idx |-> [j \in Idx |-> m[j][i]]]

\* C15 (gap definition and tie-break): for the heights under test and each
\* pair (i, j), i < j, the check takes the element with the smaller centre as
\* lower and i on equal centres, its gap is higher.low - lower.high, both
\* matrices are symmetric, and the verdict is the same with the bounds looked
\* up by pair or with the matrix indices swapped.
C15_GapAndLookup ==
    pc = "inner" =>
        /\ \A pr \in PairSet :
              /\ heights[pr[1]] <= heights[pr[2]]
                    => (Lower(heights, pr[1], pr[2]) = pr[1] /\ Higher(heights, pr[1], pr[2]) = pr[2])
              /\ heights[pr[1]] > heights[pr[2]]
                    => (Lower(heights, pr[1], pr[2]) = pr[2] /\ Higher(heights, pr[1], pr[2]) = pr[1])
              /\ DistEntreBordas(heights, params.thicknesses, pr[1], pr[2])
                    = IntervalLow(params, heights, Higher(heights, pr[1], pr[2]))
                      - IntervalHigh(params, heights, Lower(heights, pr[1], pr[2]))
              /\ MinM[pr[1]][pr[2]] = params.min_dist[pr] /\ MinM[pr[2]][pr[1]] = params.min_dist[pr]
              /\ MaxM[pr[1]][pr[2]] = params.max_dist[pr] /\ MaxM[pr[2]][pr[1]] = params.max_dist[pr]
        /\ verifica_distancias_minmax(heights, params.thicknesses, MinM, MaxM)
              <=> Feasible(params, heights)
        /\ verifica_distancias_minmax(heights, params.thicknesses, MinM, MaxM)
              <=> verifica_distancias_minmax(heights, params.thicknesses,
                                             Transposed(MinM), Transposed(MaxM))

\* heights that pass the check with EPS and OBC on equal centres and EPS
\* below the centre of PL, under bounds that are not all zero
C15_Witness ==
    /\ pc = "inner"
    /\ n_visited[permIdx] > 0
    /\ heights[1] = heights[2]
    /\ heights[0] > heights[1]
    /\ params.min_dist[<<0, 1>>] # 0
    /\ verifica_distancias_minmax(heights, params.thicknesses, MinM, MaxM)

\* n whole millimetres is x half-millimetres with its fraction dropped
IsTruncOf(n, x) ==
    \/ x >= 0 /\ 2 * n <= x /\ x < 2 * n + 2
    \/ x < 0 /\ 2 * n - 2 < x /\ x <= 2 * n

\* C16 (first-level range): in each permutation the first element's heights
\* run from own_thickness/2 truncated up to RAD.low - own_thickness/2
\* truncated, RAD.low = total_height - RAD_thickness, in steps of 1.
C16_FirstLevelRange ==
    pc \in {"outer", "inner"} =>
        /\ IsTruncOf(min_altura_1, Half(params.thicknesses[Perms[permIdx][1]]))
        /\ IsTruncOf(max_altura_1, (params.total_height - params.thicknesses[3])
                                   - Half(params.thicknesses[Perms[permIdx][1]]))
        /\ height1 >= min_altura_1
        /\ pc = "inner"
              => (height1 <= max_altura_1 /\ heights[Perms[permIdx][1]] = Float(height1))
        /\ (pc = "outer" /\ height1 > min_altura_1)
              => (height1 <= max_altura_1 + 1 /\ heights[Perms[permIdx][1]] = Float(height1 - 1))

\* the last height of a first-level range of several heights, both bounds
\* having had half a millimetre dropped
C16_Witness ==
    /\ pc = "inner"
    /\ height1 = max_altura_1
    /\ height1 > min_altura_1
    /\ Half(params.thicknesses[Perms[permIdx][1]]) % 2 = 1
    /\ ((params.total_height - params.thicknesses[3])
        - Half(params.thicknesses[Perms[permIdx][1]])) % 2 = 1

\* PL centred half its thickness above 0, RAD half its thickness below the top
FixedInPlace(p, hs) ==
    /\ 2 * hs[0] = p.thicknesses[0]
    /\ 2 * hs[3] = 2 * p.total_height - p.thicknesses[3]

\* C17 (fixed elements): from the start of the enumeration on, the working
\* heights, the recorded best heights and every reported configuration have
\* PL at PL_thickness/2 and RAD at total_height - RAD_thickness/2.
C17_FixedElements ==
    /\ heights # NoneArr => FixedInPlace(params, heights)
    /\ best_heights # NoneArr => FixedInPlace(params, best_heights)
    /\ Found => FixedInPlace(params, result.heights)

\* a report after several candidates of both permutations, PL and RAD having
\* positive thickness
C17_Witness ==
    /\ Found
    /\ n_visited[1] > 1
    /\ n_visited[2] > 1
    /\ params.thicknesses[0] > 0
    /\ params.thicknesses[3] > 0
    /\ result.heights[1] # 0
    /\ result.heights[2] # 0

\* the PL-RAD gap as the check takes it: RAD.low - PL.high while PL's centre
\* is not above RAD's, PL.low - RAD.high otherwise
FixedGap(p) ==
    IF p.thicknesses[0] <= 2 * p.total_height - p.thicknesses[3]
    THEN p.total_height - p.thicknesses[3] - p.thicknesses[0]
    ELSE 0 - p.total_height

FixedGapOutOfBounds(p) ==
    FixedGap(p) < p.min_dist[<<0, 3>>] \/ FixedGap(p) > p.max_dist[<<0, 3>>]

\* C18 as amended (fixed-fixed pair): if the PL-RAD gap, total_height -
\* RAD_thickness - PL_thickness while PL's centre is not above RAD's centre
\* and -total_height otherwise, is below min_distance[PL,RAD] or above
\* max_distance[PL,RAD], the outcome is "no valid configuration".
C18_FixedPair ==
    (Done /\ FixedGapOutOfBounds(params)) => result.kind = "res_no_config"

\* NotFound on the PL-RAD pair alone: some candidate is in range and meets
\* the bounds of the five other pairs
C18_Witness ==
    /\ NotFound
    /\ FixedGapOutOfBounds(params)
    /\ \E hs \in Candidates(params) :
          /\ InRange(calcula_cg(hs, params), params)
          /\ \A q \in PairSet \ {<<0, 3>>} :
                params.min_dist[q] <= Gap(params, hs, q) /\ Gap(params, hs, q) <= params.max_dist[q]

\* C18 as stated: the gap is total_height - RAD_thickness - PL_thickness in
\* every case.
C18_Original ==
    (Done /\ (params.total_height - params.thicknesses[3] - params.thicknesses[0]
                  < params.min_dist[<<0, 3>>]
              \/ params.total_height - params.thicknesses[3] - params.thicknesses[0]
                  > params.max_dist[<<0, 3>>]))
        => result.kind = "res_no_config"

\* the place of the search in the enumeration: <<permutation, height1,
\* height2>>, a loop not yet entered counting below all of its values
Cursor(c, k, h1, h2) ==
    << k,
       IF c \in {"outer", "inner"} THEN <<1, h1>> ELSE <<0, 0>>,
       IF c = "inner" THEN <<1, h2>> ELSE <<0, 0>> >>

PairLess(a, b) == a[1] < b[1] \/ (a[1] = b[1] /\ a[2] < b[2])

LexLess(c, d) ==
    \/ c[1] < d[1]
    \/ c[1] = d[1] /\ PairLess(c[2], d[2])
    \/ c[1] = d[1] /\ c[2] = d[2] /\ PairLess(c[3], d[3])

\* every step of a running search moves the cursor strictly forward, so that
\* no <<permutation, height1, height2>> is visited twice
CursorAdvances ==
    (pc # "idle" /\ pc' # "idle") =>
        LexLess(Cursor(pc, permIdx, height1, height2),
                Cursor(pc', permIdx', height1', height2'))

\* a visit moves to the next height2 and leaves the ranges, height1 and the
\* permutation alone, whether or not it records a new best
VisitKeepsEnumeration ==
    (pc = "inner" /\ pc' = "inner") =>
        /\ height2' = height2 + 1
        /\ UNCHANGED <<permIdx, height1, min_altura_1, max_altura_1,
                       min_altura_2, max_altura_2>>

\* the outcome appears in one step, after the last permutation, and is a best
\* configuration or NotFound; until the next Calculate it stays as it is
OneOutcome ==
    /\ (result.kind = "empty" /\ result'.kind # "empty") =>
          /\ pc = "perm" /\ permIdx = Len(Perms) + 1 /\ pc' = "idle"
          /\ result'.kind \in {"res_best_config", "res_no_config"}
    /\ (result.kind # "empty" /\ result' # result) =>
          (pc = "idle" /\ pc' = "perm" /\ result'.kind = "empty")

\* at the end every combination of both permutations was visited once
AllVisitedOnce ==
    Done => \A k \in 1..Len(Perms) : n_visited[k] = Cardinality(Pairs12(params, k))

\* C19 (termination): a running search visits each (permutation, height1,
\* height2) combination at most once, eventually exhausts both permutations
\* and then produces exactly one outcome, a best configuration or NotFound;
\* recording a new best never restarts or extends the enumeration.
C19_Termination ==
    /\ [][CursorAdvances /\ VisitKeepsEnumeration /\ OneOutcome]_vars
    /\ []AllVisitedOnce
    /\ (pc # "idle") ~> Done

\* a best was recorded and the enumeration went on past it, in both permutations
C19_Witness ==
    /\ Found
    /\ n_visited[1] > 1
    /\ n_visited[2] > 1
    /\ result.heights # heights

\* C20 (language invariant): after any sequence of language changes and
\* configuration loads, failed loads included, current_lang is "pt" or "en",
\* so that every later lookup tr(key) succeeds.
C20_LangValid == current_lang \in {"pt", "en"} /\ ~TrRaises(current_lang)

\* what importing the saved text of the current state would make of the form
RoundTripForm == ImportConfig(params, JsonLoad(JsonDump(ExportConfig(params, current_lang))))

RoundTripLanguage == JsonLoad(JsonDump(ExportConfig(params, current_lang))).language

\* in every state, export followed by import leaves the form and the language
ImportOfExportKeeps ==
    /\ RoundTripForm = params
    /\ RoundTripLanguage = <<current_lang>>

\* loading the saved file puts back the form and the language of the save,
\* whatever was edited, loaded or applied in between
LoadRestores ==
    OnLoadSaved => (params' = saved.p /\ current_lang' = saved.lang)

\* a calculation after the load shows what the calculation before the save showed
SameOutcome ==
    (pc = "idle" /\ fresh /\ restored # "no" /\ saved.r.kind # "unknown")
        => result = saved.r

\* C21 (configuration round trip): in every state, importing the dictionary
\* that _export_config produces leaves masses, thicknesses, external masses
\* and heights, total height, target range, the six minimum and six maximum
\* distances and the language unchanged; loading a saved file restores them,
\* and a calculation after the load gives the outcome it gave before the save.
C21_RoundTrip ==
    /\ []ImportOfExportKeeps
    /\ [][LoadRestores]_vars
    /\ []SameOutcome

\* a configuration was found, the form was saved, changed, loaded again and
\* calculated again; the form has a half millimetre and negative distances
C21_Witness ==
    /\ pc = "idle"
    /\ fresh
    /\ restored = "replaced"
    /\ saved.r.kind = "res_best_config"
    /\ result = saved.r
    /\ params.total_height % 2 = 1
    /\ \E pr \in PairSet : params.min_dist[pr] < 0

====
